---- MODULE Spec2Model ----
(***************************************************************************)
(* Verification model of package ujwt (JWKS cache, RS256 JWT assertion)    *)
(* and of the collaborators it uses (ureq.Client.request, ucheck, userv).  *)
(***************************************************************************)
EXTENDS Integers, Sequences, FiniteSets, TLC

(* ------------------------------------------------------------------ *)
(* Bounds of the model                                                 *)
(* ------------------------------------------------------------------ *)

\* Number of goroutines that call into one shared JWKS instance.
NumProcs == 3

\* Number of goroutines that run concurrently when JWTRS256Assert is among the
\* calls.
NumCallers == 2

\* Largest whole second used for exp and for the clock.
MaxSec == 2

\* Largest number of bytes of a JWK exponent.
MaxExpLen == 9

\* Largest length of the set and of the query given to ContainsAll, ContainsAny.
MaxLen == 3

\* Largest number of attempts given to Retry.
MaxTimes == 3

Procs == 1..NumProcs

Nil == [class |-> "nil", msg |-> ""]

(* ------------------------------------------------------------------ *)
(* userv error classes                                                 *)
(* ------------------------------------------------------------------ *)

Unautorized(m) == [class |-> "Unautorized", msg |-> m]

Forbidden(m) == [class |-> "Forbidden", msg |-> m]

\* a plain error value (errors.New, fmt.Errorf, net/http and json errors)
PlainError(m) == [class |-> "error", msg |-> m]

(* ------------------------------------------------------------------ *)
(* base64 (RawURLEncoding) strings and byte strings                     *)
(* A base64url string is represented by the outcome of decoding it:     *)
(* ok = FALSE when DecodeString returns an error, else its bytes.       *)
(* ------------------------------------------------------------------ *)

B64(bs) == [ok |-> TRUE, bytes |-> bs]

BadB64 == [ok |-> FALSE, bytes |-> <<>>]

RECURSIVE StripZeros(_)
\* big.Int.SetBytes: the unsigned big-endian value, as its canonical bytes
StripZeros(bs) ==
  IF bs = <<>> THEN <<>>
  ELSE IF Head(bs) = 0 THEN StripZeros(Tail(bs))
  ELSE bs

RECURSIVE PadLeft(_, _)
PadLeft(bs, n) == IF Len(bs) >= n THEN bs ELSE PadLeft(<<0>> \o bs, n)

\* the low n bytes of a big-endian byte string, zero-extended to n bytes
LowBytes(bs, n) ==
  IF Len(bs) >= n THEN SubSeq(bs, Len(bs) - n + 1, Len(bs))
  ELSE PadLeft(bs, n)

\* big.Int.Uint64: the low 64 bits of the value, as 8 big-endian bytes
BigUint64(bs) == LowBytes(StripZeros(bs), 8)

\* uint64(binary.BigEndian.Uint32(b)) for a 4-byte b, as 8 big-endian bytes
Uint32As64(b) == <<0, 0, 0, 0>> \o b

\* e64 > uint64(^uint32(0))
ExceedsUint32(e64) == \E i \in 1..4 : e64[i] # 0

(* ------------------------------------------------------------------ *)
(* jwkToRSA                                                            *)
(* ------------------------------------------------------------------ *)

\* a *jwkt; nil = TRUE is the nil pointer of a JSON null element
JWK(kid, kty, n, e) ==
  [nil |-> FALSE, Kid |-> kid, Kty |-> kty, Alg |-> "RS256", N |-> n, E |-> e]

\* a nil *rsa.PublicKey
NoKey == [N |-> <<>>, E |-> <<>>]

\* the e64 of jwkToRSA, by the switch on len(eb)
Exponent64(eb) ==
  IF Len(eb) = 3 THEN Uint32As64(<<0>> \o eb)
  ELSE IF Len(eb) = 4 THEN Uint32As64(eb)
  ELSE BigUint64(eb)

jwkToRSA(jwk) ==
  IF ~jwk.N.ok THEN [err |-> TRUE, pub |-> NoKey]
  ELSE IF ~jwk.E.ok THEN [err |-> TRUE, pub |-> NoKey]
  ELSE LET e64 == Exponent64(jwk.E.bytes) IN
    IF ExceedsUint32(e64) THEN [err |-> TRUE, pub |-> NoKey]
    ELSE [err |-> FALSE,
          pub |-> [N |-> StripZeros(jwk.N.bytes), E |-> StripZeros(e64)]]

(* ------------------------------------------------------------------ *)
(* The key-set source: keys it publishes and responses it can give      *)
(* ------------------------------------------------------------------ *)

E65537 == B64(<<1, 0, 1>>)

JwkA == JWK("k1", "RSA", B64(<<11>>), E65537)

JwkB == JWK("k2", "RSA", B64(<<22>>), E65537)

JwkEC == JWK("k3", "EC", B64(<<33>>), E65537)

JwkBadN == JWK("k2", "RSA", BadB64, E65537)

\* a JSON null element of "keys": a nil *jwkt after json.Unmarshal
NullJWK ==
  [nil |-> TRUE, Kid |-> "", Kty |-> "", Alg |-> "", N |-> BadB64, E |-> BadB64]

PubA == jwkToRSA(JwkA).pub

PubB == jwkToRSA(JwkB).pub

\* an HTTP response: status code, whether the body is JSON, and its "keys"
Response(status, json, ks) == [status |-> status, json |-> json, keys |-> ks]

Responses ==
  { Response(200, TRUE, <<JwkA>>),
    Response(200, TRUE, <<JwkEC, JwkB>>),
    Response(200, TRUE, <<JwkEC, JwkBadN>>),
    Response(200, TRUE, <<NullJWK>>),
    Response(200, TRUE, <<JwkA, NullJWK>>),
    Response(200, TRUE, <<>>),
    Response(200, FALSE, <<>>),
    Response(201, TRUE, <<JwkA>>),
    Response(500, FALSE, <<>>) }

\* make(map[string]*rsa.PublicKey)
EmptyKeys == [k \in {} |-> NoKey]

\* c.keys[kid] = pub
PutKey(m, kid, pub) ==
  [k \in (DOMAIN m) \cup {kid} |-> IF k = kid THEN pub ELSE m[k]]

\* pub, exist := c.keys[kid]
Lookup(m, kid) ==
  IF kid \in DOMAIN m THEN [pub |-> m[kid], exist |-> TRUE]
  ELSE [pub |-> NoKey, exist |-> FALSE]

(* ------------------------------------------------------------------ *)
(* ureq.Client.request as called by Fetch: GET with ResJSON(&jwks)      *)
(* ------------------------------------------------------------------ *)

SuccessCodes == {200, 201, 202, 204}

\* the part of request after c.client.Do and io.ReadAll returned no error
request(resp) ==
  IF resp.status \in SuccessCodes
  THEN IF ~resp.json
       THEN [err |-> PlainError("json: invalid body"), status |-> 0, jwks |-> <<>>]
       ELSE [err |-> Nil, status |-> resp.status, jwks |-> resp.keys]
  ELSE [err |-> Nil, status |-> resp.status, jwks |-> <<>>]

(* ------------------------------------------------------------------ *)
(* JWKS.Fetch: from the response to the local key map                   *)
(* ------------------------------------------------------------------ *)

RECURSIVE BuildKeys(_, _)
\* the loop over jwks.Keys; "panic" when an element is a nil pointer
BuildKeys(jwks, acc) ==
  IF jwks = <<>> THEN [keys |-> acc, panic |-> FALSE]
  ELSE LET jwk == Head(jwks) IN
    IF jwk.nil THEN [keys |-> acc, panic |-> TRUE]
    ELSE IF jwk.Kty # "RSA" THEN BuildKeys(Tail(jwks), acc)
    ELSE LET r == jwkToRSA(jwk) IN
      IF r.err THEN BuildKeys(Tail(jwks), acc)
      ELSE BuildKeys(Tail(jwks), PutKey(acc, jwk.Kid, r.pub))

\* a Fetch without the check for an empty key set
FetchBuildUnchecked(resp) ==
  LET r == request(resp) IN
  IF r.err # Nil THEN [err |-> r.err, keys |-> EmptyKeys, kind |-> "err"]
  ELSE IF r.status # 200
    THEN [err |-> PlainError("JWKS fetch: expected 200, got " \o ToString(r.status)),
          keys |-> EmptyKeys,
          kind |-> "err"]
  ELSE LET b == BuildKeys(r.jwks, EmptyKeys) IN
    IF b.panic THEN [err |-> Nil, keys |-> EmptyKeys, kind |-> "panic"]
    ELSE [err |-> Nil, keys |-> b.keys, kind |-> "ok"]

\* what Fetch does with a response, up to the point where it takes the lock:
\* kind "err" (returns err), "panic" (nil dereference), "ok" (keys built)
FetchBuild(resp) ==
  LET r == request(resp) IN
  IF r.err # Nil THEN [err |-> r.err, keys |-> EmptyKeys, kind |-> "err"]
  ELSE IF r.status # 200
    THEN [err |-> PlainError("JWKS fetch: expected 200, got " \o ToString(r.status)),
          keys |-> EmptyKeys,
          kind |-> "err"]
  ELSE LET b == BuildKeys(r.jwks, EmptyKeys) IN
    IF b.panic THEN [err |-> Nil, keys |-> EmptyKeys, kind |-> "panic"]
    ELSE IF DOMAIN b.keys = {}
      THEN [err |-> PlainError("JWKS fetch: empty key set"),
            keys |-> EmptyKeys,
            kind |-> "err"]
    ELSE [err |-> Nil, keys |-> b.keys, kind |-> "ok"]

(* ------------------------------------------------------------------ *)
(* ucheck.ContainsAll, ucheck.ContainsAny, slices.Contains, strings.Join *)
(* ------------------------------------------------------------------ *)

\* slices.Contains(s, v)
Contains(s, v) == \E i \in 1..Len(s) : s[i] = v

\* a *T: nil = TRUE is the nil pointer, else val is the pointed-to value
Ptr(v) == [nil |-> FALSE, val |-> v]

NilPtr == [nil |-> TRUE, val |-> ""]

RECURSIVE ContainsAllLastMissing(_, _)
\* a ContainsAll that goes through the query from its end
ContainsAllLastMissing(set, query) ==
  IF query = <<>> THEN NilPtr
  ELSE IF ~Contains(set, query[Len(query)]) THEN Ptr(query[Len(query)])
  ELSE ContainsAllLastMissing(set, SubSeq(query, 1, Len(query) - 1))

RECURSIVE ContainsAll(_, _)
ContainsAll(set, query) ==
  IF query = <<>> THEN NilPtr
  ELSE IF ~Contains(set, Head(query)) THEN Ptr(Head(query))
  ELSE ContainsAll(set, Tail(query))

RECURSIVE ContainsAnyInSetOrder(_, _)
\* a ContainsAny that goes through the set and looks each element up in the
\* query
ContainsAnyInSetOrder(set, query) ==
  IF set = <<>> THEN NilPtr
  ELSE IF Contains(query, Head(set)) THEN Ptr(Head(set))
  ELSE ContainsAnyInSetOrder(Tail(set), query)

RECURSIVE ContainsAny(_, _)
ContainsAny(set, query) ==
  IF query = <<>> THEN [nil |-> TRUE, val |-> ""]
  ELSE IF Contains(set, Head(query)) THEN [nil |-> FALSE, val |-> Head(query)]
  ELSE ContainsAny(set, Tail(query))

RECURSIVE Join(_, _)
\* strings.Join(elems, sep)
Join(elems, sep) ==
  IF elems = <<>> THEN ""
  ELSE IF Len(elems) = 1 THEN elems[1]
  ELSE elems[1] \o sep \o Join(Tail(elems), sep)

(* ------------------------------------------------------------------ *)
(* time.Time: whole seconds and nanoseconds within the second           *)
(* ------------------------------------------------------------------ *)

\* time.Unix(sec, 0).UTC()
Unix(sec) == [sec |-> sec, nsec |-> 0]

\* t.Before(u)
Before(t, u) == t.sec < u.sec \/ (t.sec = u.sec /\ t.nsec < u.nsec)

\* values time.Now().UTC() can take: any instant, to the nanosecond
NsecSamples == {0, 1, 999999999}

Times == [sec : 0..MaxSec, nsec : NsecSamples]

(* ------------------------------------------------------------------ *)
(* jwtClaimsCheck                                                      *)
(* ------------------------------------------------------------------ *)

TokenUseAccess == "access"

TokenUseID == "id"

JWTClaims(iss, use, exp, clientID, roles, aud) ==
  [Iss |-> iss, TokenUse |-> use, Exp |-> exp, ClientID |-> clientID,
   Roles |-> roles, Aud |-> aud]

RECURSIVE RolesCheckAnyGroup(_, _)
\* a roles check that is satisfied by any one group: an OR of OR-groups
RolesCheckAnyGroup(claimRoles, roles) ==
  IF roles = <<>> THEN Nil
  ELSE IF ~ContainsAny(claimRoles, Head(roles)).nil THEN Nil
  ELSE IF Len(roles) = 1
    THEN Forbidden("missing role: at least one of " \o Join(Head(roles), ", ")
                   \o " is required")
  ELSE RolesCheckAnyGroup(claimRoles, Tail(roles))

RECURSIVE RolesCheck(_, _)
\* the loop over roles: the first query with no element in claims.Roles
RolesCheck(claimRoles, roles) ==
  IF roles = <<>> THEN Nil
  ELSE IF ContainsAny(claimRoles, Head(roles)).nil
    THEN Forbidden("missing role: at least one of " \o Join(Head(roles), ", ")
                   \o " is required")
  ELSE RolesCheck(claimRoles, Tail(roles))

\* a client id check that accepts a match of either field in both branches
ClientIDCheckEitherField(claims, tokenUse, clientIDs) ==
  IF tokenUse \in {TokenUseAccess, TokenUseID}
    THEN IF ~Contains(clientIDs, claims.ClientID) /\ ~Contains(clientIDs, claims.Aud)
         THEN Unautorized("invalid client ID") ELSE Nil
  ELSE Unautorized("invalid token use")

\* the switch on tokenUse
ClientIDCheck(claims, tokenUse, clientIDs) ==
  IF tokenUse = TokenUseAccess
    THEN IF ~Contains(clientIDs, claims.ClientID)
         THEN Unautorized("invalid client ID") ELSE Nil
  ELSE IF tokenUse = TokenUseID
    THEN IF ~Contains(clientIDs, claims.Aud)
         THEN Unautorized("invalid client ID") ELSE Nil
  ELSE Unautorized("invalid token use")

\* an expiry check that compares whole seconds
ExpiredWholeSeconds(exp, now) == exp < now.sec

\* time.Unix(claims.Exp, 0).UTC().Before(time.Now().UTC())
Expired(exp, now) == Before(Unix(exp), now)

\* a jwtClaimsCheck that checks the expiry first
jwtClaimsCheckExpiryFirst(claims, issuer, tokenUse, clientIDs, roles, now) ==
  IF Expired(claims.Exp, now) THEN Unautorized("expired JWT")
  ELSE IF claims.Iss # issuer THEN Unautorized("invalid JWT issuer")
  ELSE IF claims.TokenUse # tokenUse THEN Unautorized("invalid JWT use")
  ELSE IF ClientIDCheck(claims, tokenUse, clientIDs) # Nil
    THEN ClientIDCheck(claims, tokenUse, clientIDs)
  ELSE RolesCheck(claims.Roles, roles)

\* now is the value time.Now() returns inside the call
jwtClaimsCheck(claims, issuer, tokenUse, clientIDs, roles, now) ==
  IF claims.Iss # issuer THEN Unautorized("invalid JWT issuer")
  ELSE IF claims.TokenUse # tokenUse THEN Unautorized("invalid JWT use")
  ELSE IF Expired(claims.Exp, now) THEN Unautorized("expired JWT")
  ELSE IF ClientIDCheck(claims, tokenUse, clientIDs) # Nil
    THEN ClientIDCheck(claims, tokenUse, clientIDs)
  ELSE RolesCheck(claims.Roles, roles)

(* ------------------------------------------------------------------ *)
(* Tokens: the segments strings.Split(jwt, ".") yields                  *)
(* A segment is represented by what decoding it gives: enc = FALSE      *)
(* when base64 decoding fails, json = FALSE when json.Unmarshal of the  *)
(* decoded bytes fails, and the decoded value otherwise.                *)
(* ------------------------------------------------------------------ *)

HeadSeg(enc, json, alg, kid) ==
  [Kid |-> kid, Alg |-> alg, json |-> json, enc |-> enc]

ClaimsSeg(enc, json, claims) == [json |-> json, claims |-> claims, enc |-> enc]

\* a signature segment: the key pair that produced it and the message signed
SigSeg(enc, signer, over) == [enc |-> enc, signer |-> signer, over |-> over]

\* fmt.Sprintf("%s.%s", ehead, eclaims)
SigningInput(ehead, eclaims) == <<ehead, eclaims>>

\* rsa.VerifyPKCS1v15(pub, crypto.SHA256, hash, sig) == nil
VerifyPKCS1v15(pub, msg, sig) == sig.signer = pub /\ sig.over = msg

\* what decoding the empty string gives, wherever it stands: base64url of no
\* bytes, no bytes are not JSON, and no bytes are the signature of nothing
EmptySeg ==
  [Kid |-> "",
   Alg |-> "",
   json |-> FALSE,
   claims |-> JWTClaims("", "", 0, "", <<>>, ""),
   enc |-> TRUE,
   signer |-> NoKey,
   over |-> <<>>]

\* A token string is the sequence of its dots and of its non-empty dot-free
\* substrings, each of these represented by what decoding it gives.
Dot == [dot |-> TRUE, seg |-> EmptySeg]

Chunk(seg) == [dot |-> FALSE, seg |-> seg]

RECURSIVE Dotted(_)
\* the token string whose segments are segs: the segments joined by "."
Dotted(segs) ==
  LET first == IF Head(segs) = EmptySeg THEN <<>> ELSE <<Chunk(Head(segs))>> IN
  IF Len(segs) = 1 THEN first
  ELSE first \o <<Dot>> \o Dotted(Tail(segs))

\* the index of the first "." of s, 0 if there is none
FirstDot(s) ==
  IF \E i \in 1..Len(s) : s[i].dot
  THEN CHOOSE i \in 1..Len(s) : s[i].dot /\ \A j \in 1..(i - 1) : ~s[j].dot
  ELSE 0

RECURSIVE Split(_)
\* strings.Split(s, "."): one more substring than s has dots
Split(s) ==
  IF FirstDot(s) = 0 THEN <<s>>
  ELSE <<SubSeq(s, 1, FirstDot(s) - 1)>>
       \o Split(SubSeq(s, FirstDot(s) + 1, Len(s)))

\* what decoding a dot-free string gives
Decoded(part) == IF part = <<>> THEN EmptySeg ELSE part[1].seg

\* parts := strings.Split(jwt, "."), each part as what decoding it gives
Parts(s) == [i \in 1..Len(Split(s)) |-> Decoded(Split(s)[i])]

\* a token whose signature was made over its own first two segments
SignedJWT(head, claims, signer) ==
  <<head, claims, SigSeg(TRUE, signer, SigningInput(head, claims))>>

Policy(issuer, tokenUse, clientIDs, roles) ==
  [roles |-> roles,
   tokenUse |-> tokenUse,
   clientIDs |-> clientIDs,
   issuer |-> issuer]

(* ------------------------------------------------------------------ *)
(* JWTRS256Assert: the stages before and after the key lookup           *)
(* Each gives the error returned (Nil when the stages pass) and the     *)
(* stages that ran.                                                     *)
(* ------------------------------------------------------------------ *)

\* a JWTRS256Assert whose format check also refuses empty segments
AssertParseNonEmpty(jwt) ==
  IF Len(jwt) # 3 \/ \E i \in 1..Len(jwt) : jwt[i] = EmptySeg
    THEN [err |-> Unautorized("invalid JWT format"), stages |-> <<"split">>]
  ELSE IF ~jwt[1].enc
    THEN [err |-> Unautorized("invalid JWT header encoding"),
          stages |-> <<"split", "header">>]
  ELSE IF ~jwt[1].json
    THEN [err |-> Unautorized("invalid JWT header format"),
          stages |-> <<"split", "header">>]
  ELSE IF jwt[1].Alg # "RS256"
    THEN [err |-> Unautorized("unsupported JWT signature algorithm"),
          stages |-> <<"split", "header", "alg">>]
  ELSE [err |-> Nil, stages |-> <<"split", "header", "alg">>]

\* Parse JWT, check the RS256 signature algorithm
AssertParse(jwt) ==
  IF Len(jwt) # 3
    THEN [err |-> Unautorized("invalid JWT format"), stages |-> <<"split">>]
  ELSE IF ~jwt[1].enc
    THEN [err |-> Unautorized("invalid JWT header encoding"),
          stages |-> <<"split", "header">>]
  ELSE IF ~jwt[1].json
    THEN [err |-> Unautorized("invalid JWT header format"),
          stages |-> <<"split", "header">>]
  ELSE IF jwt[1].Alg # "RS256"
    THEN [err |-> Unautorized("unsupported JWT signature algorithm"),
          stages |-> <<"split", "header", "alg">>]
  ELSE [err |-> Nil, stages |-> <<"split", "header", "alg">>]

\* a JWTRS256Assert that decodes the claims before it verifies the signature
AssertVerifyClaimsFirst(jwt, pub, pol, now) ==
  IF ~jwt[2].enc
    THEN [err |-> Unautorized("invalid JWT claims encoding"),
          stages |-> <<"claims">>]
  ELSE IF ~jwt[2].json
    THEN [err |-> Unautorized("invalid JWT claims format"),
          stages |-> <<"claims">>]
  ELSE IF ~jwt[3].enc
    THEN [err |-> Unautorized("invalid JWT signature format"),
          stages |-> <<"claims", "verify">>]
  ELSE IF ~VerifyPKCS1v15(pub, SigningInput(jwt[1], jwt[2]), jwt[3])
    THEN [err |-> Unautorized("invalid JWT signature"),
          stages |-> <<"claims", "verify">>]
  ELSE [err |-> jwtClaimsCheck(jwt[2].claims, pol.issuer, pol.tokenUse,
                               pol.clientIDs, pol.roles, now),
        stages |-> <<"claims", "verify", "check">>]

\* Verify JWT RS256 signature, check JWT claims
AssertVerify(jwt, pub, pol, now) ==
  IF ~jwt[3].enc
    THEN [err |-> Unautorized("invalid JWT signature format"),
          stages |-> <<"verify">>]
  ELSE IF ~VerifyPKCS1v15(pub, SigningInput(jwt[1], jwt[2]), jwt[3])
    THEN [err |-> Unautorized("invalid JWT signature"), stages |-> <<"verify">>]
  ELSE IF ~jwt[2].enc
    THEN [err |-> Unautorized("invalid JWT claims encoding"),
          stages |-> <<"verify", "claims">>]
  ELSE IF ~jwt[2].json
    THEN [err |-> Unautorized("invalid JWT claims format"),
          stages |-> <<"verify", "claims">>]
  ELSE [err |-> jwtClaimsCheck(jwt[2].claims, pol.issuer, pol.tokenUse,
                               pol.clientIDs, pol.roles, now),
        stages |-> <<"verify", "claims", "check">>]

(* ------------------------------------------------------------------ *)
(* JWTDecodeClaims, given the parts of the token                        *)
(* ------------------------------------------------------------------ *)

JWTDecodeClaims(parts) ==
  IF Len(parts) # 3
    THEN [err |-> PlainError("invalid JWT format"), stages |-> <<"split">>]
  ELSE IF ~parts[2].enc
    THEN [err |-> PlainError("illegal base64 data"),
          stages |-> <<"split", "claims">>]
  ELSE IF ~parts[2].json
    THEN [err |-> PlainError("json: invalid input"),
          stages |-> <<"split", "claims">>]
  ELSE [err |-> Nil, stages |-> <<"split", "claims">>]

(* ------------------------------------------------------------------ *)

(* Inputs: tokens, policies                                            *)
(* ------------------------------------------------------------------ *)

ZeroClaims == JWTClaims("", "", 0, "", <<>>, "")

GoodClaims == JWTClaims("iss", TokenUseAccess, 1, "c1", <<"admin">>, "")

NoRoleClaims == JWTClaims("iss", TokenUseAccess, MaxSec, "c1", <<>>, "")

Pol0 == Policy("iss", TokenUseAccess, <<"c1">>, <<<<"admin", "owner">>>>)

HeadA == HeadSeg(TRUE, TRUE, "RS256", "k1")

HeadB == HeadSeg(TRUE, TRUE, "RS256", "k2")

HeadHS == HeadSeg(TRUE, TRUE, "HS256", "k1")

GoodSeg == ClaimsSeg(TRUE, TRUE, GoodClaims)

\* a claims segment that is not base64url
BadEncSeg == ClaimsSeg(FALSE, FALSE, ZeroClaims)

\* a claims segment that is base64url of something that is not JSON
BadJSONSeg == ClaimsSeg(TRUE, FALSE, ZeroClaims)

TokA == SignedJWT(HeadA, GoodSeg, PubA)

TokB == SignedJWT(HeadB, GoodSeg, PubB)

TokHS == SignedJWT(HeadHS, GoodSeg, PubA)

\* tokens used by the concurrent callers
ConcTokens == {Dotted(t) : t \in {TokA, TokB, TokHS}}

\* tokens used by the single caller of SpecSeq: every stage can fail
AllTokens ==
  ConcTokens \cup
  { Dotted(t) : t \in {
    <<HeadA, GoodSeg>>,
    <<HeadA, GoodSeg, SigSeg(TRUE, PubA, SigningInput(HeadA, GoodSeg)), GoodSeg>>,
    SignedJWT(HeadSeg(FALSE, FALSE, "", ""), GoodSeg, PubA),
    SignedJWT(HeadSeg(TRUE, FALSE, "", ""), GoodSeg, PubA),
    <<HeadA, GoodSeg, SigSeg(FALSE, NoKey, <<>>)>>,
    <<HeadA, GoodSeg, SigSeg(TRUE, PubB, SigningInput(HeadA, GoodSeg))>>,
    <<HeadA, BadEncSeg, SigSeg(TRUE, PubB, SigningInput(HeadA, BadEncSeg))>>,
    <<HeadA, BadEncSeg, SigSeg(FALSE, NoKey, <<>>)>>,
    SignedJWT(HeadA, BadEncSeg, PubA),
    SignedJWT(HeadA, BadJSONSeg, PubA),
    SignedJWT(HeadA, ClaimsSeg(TRUE, TRUE, NoRoleClaims), PubA),
    SignedJWT(HeadB, ClaimsSeg(TRUE, TRUE, ZeroClaims), PubB),
    \* "", "h.", "h.c.s.": not three segments
    <<EmptySeg>>,
    <<HeadA, EmptySeg>>,
    <<HeadA, GoodSeg, SigSeg(TRUE, PubA, SigningInput(HeadA, GoodSeg)), EmptySeg>>,
    \* "..", ".c.s", "h..s", "h.c.", ".c.": three segments, some empty
    <<EmptySeg, EmptySeg, EmptySeg>>,
    <<EmptySeg, GoodSeg, SigSeg(TRUE, PubA, SigningInput(HeadA, GoodSeg))>>,
    SignedJWT(HeadA, EmptySeg, PubA),
    <<HeadA, GoodSeg, EmptySeg>>,
    <<HeadB, GoodSeg, EmptySeg>>,
    <<EmptySeg, GoodSeg, EmptySeg>>,
    \* three segments, some empty, another one malformed
    <<EmptySeg, BadEncSeg, EmptySeg>>,
    <<HeadA, BadJSONSeg, EmptySeg>>,
    <<HeadA, EmptySeg, SigSeg(FALSE, NoKey, <<>>)>>,
    <<HeadHS, GoodSeg, EmptySeg>>,
    <<HeadHS, EmptySeg, EmptySeg>>,
    <<HeadSeg(FALSE, FALSE, "", ""), GoodSeg, EmptySeg>>,
    <<HeadSeg(TRUE, FALSE, "", ""), EmptySeg, EmptySeg>> } }

Kids == {"k1", "k2"}

(* ------------------------------------------------------------------ *)
(* State                                                               *)
(* ------------------------------------------------------------------ *)

VARIABLES
  keys,      \* JWKS.keys
  writer,    \* JWKS.mtx: the goroutine holding Lock, 0 if none
  wwait,     \* JWKS.mtx: goroutines blocked in Lock
  readers,   \* JWKS.mtx: goroutines holding RLock
  gets,      \* HTTP GETs issued to the key-set source so far
  hist,      \* the goroutines that acquired Lock, in order, with the map each built
  pc,        \* where each goroutine is
  op,        \* the entry point each goroutine called
  jwt,       \* JWTRS256Assert, JWTDecodeClaims: the parts of the token
  kid,       \* Key: the kid looked up
  look,      \* Key: the (pub, exist) last returned
  snap,      \* Key: the map c.keys referred to when it was read
  built,     \* Fetch: the local map keys
  ret,       \* the error returned by the call (Nil for success)
  trace,     \* the stages and cache calls the call has made, in order
  wrote,     \* assignments to c.keys made by the call
  cin,       \* a function called on its own: the arguments
  cout,      \* a function called on its own: the result
  iter       \* Retry: the iterations of the loop begun so far

vars ==
  <<keys, writer, wwait, readers, gets, hist, pc, op, jwt, kid, look, snap,
    built, ret, trace, wrote, cin, cout, iter>>

\* no result yet
Pending == [class |-> "pending", msg |-> ""]

NoLook == [pub |-> NoKey, exist |-> FALSE]

NoArgs == [claims |-> ZeroClaims,
           now |-> Unix(0),
           pol |-> Policy("", "", <<>>, <<>>)]

\* the state after NewJWKS when the goroutines in active are about to call,
\* the cache holds ks and jwtClaimsCheck is about to get args
InitWith(active, ks, args) ==
  /\ keys = ks
  /\ writer = 0
  /\ wwait = {}
  /\ readers = {}
  /\ gets = 0
  /\ hist = IF DOMAIN ks = {} THEN <<>> ELSE <<[keys |-> ks, by |-> 0]>>
  /\ pc = [p \in Procs |-> IF p \in active THEN "idle" ELSE "off"]
  /\ op = [p \in Procs |-> "none"]
  /\ jwt = [p \in Procs |-> <<>>]
  /\ kid = [p \in Procs |-> ""]
  /\ look = [p \in Procs |-> NoLook]
  /\ snap = [p \in Procs |-> EmptyKeys]
  /\ built = [p \in Procs |-> EmptyKeys]
  /\ ret = [p \in Procs |-> Nil]
  /\ trace = [p \in Procs |-> <<>>]
  /\ wrote = [p \in Procs |-> 0]
  /\ cin = args
  /\ cout = Pending
  /\ iter = 0

\* NewJWKS: an empty cache, shared by NumCallers goroutines
Init == InitWith(1..NumCallers, EmptyKeys, NoArgs)

(* ------------------------------------------------------------------ *)
(* JWKS.Key                                                            *)
(* ------------------------------------------------------------------ *)

\* c.mtx.RLock(): blocks while a writer holds the lock or waits for it
RLockFree == writer = 0 /\ wwait = {}

KeyRLock(p) ==
  /\ pc[p] = "k_rlock"
  /\ RLockFree
  /\ readers' = readers \cup {p}
  /\ pc' = [pc EXCEPT ![p] = "k_read"]
  /\ UNCHANGED <<keys, writer, wwait, gets, hist, op, jwt, kid, look, snap,
                 built, ret, trace, wrote, cin, cout, iter>>

\* a JWTRS256Assert that fetches again after every miss
RetryAfterMiss(tr) == "fetch"

\* JWTRS256Assert after a lookup that missed: fetch once, then give up
AfterMiss(tr) == IF Contains(tr, "key:miss") THEN "fail" ELSE "fetch"

\* pub, exist := c.keys[kid], under the read lock
KeyRead(p) ==
  /\ pc[p] = "k_read"
  /\ look' = [look EXCEPT ![p] = Lookup(keys, kid[p])]
  /\ snap' = [snap EXCEPT ![p] = keys]
  /\ pc' = [pc EXCEPT ![p] = "k_runlock"]
  /\ UNCHANGED <<keys, writer, wwait, readers, gets, hist, op, jwt, kid, built,
                 ret, trace, wrote, cin, cout, iter>>

\* return pub, exist: the deferred c.mtx.RUnlock() runs and Key returns, to
\* its caller or into JWTRS256Assert
KeyReturn(p) ==
  /\ pc[p] = "k_runlock"
  /\ readers' = readers \ {p}
  /\ trace' = [trace EXCEPT
       ![p] = Append(@, IF look[p].exist THEN "key:hit" ELSE "key:miss")]
  /\ pc' = [pc EXCEPT ![p] = IF op[p] = "key" THEN "done" ELSE "a_looked"]
  /\ UNCHANGED <<keys, writer, wwait, gets, hist, op, jwt, kid, look, snap,
                 built, ret, wrote, cin, cout, iter>>

\* JWTRS256Assert after jwks.Key returned, holding no lock: on a miss the
\* re-fetch begins or the call fails; on a hit the signature and the claims
\* are checked against the clock as it reads now, and the call returns
AssertAfterKey(p) ==
  /\ pc[p] = "a_looked"
  /\ IF look[p].exist
     THEN \E now \in Times :
            LET v == AssertVerify(jwt[p], look[p].pub, Pol0, now) IN
            /\ pc' = [pc EXCEPT ![p] = "done"]
            /\ trace' = [trace EXCEPT ![p] = @ \o v.stages]
            /\ ret' = [ret EXCEPT ![p] = v.err]
     ELSE IF AfterMiss(SubSeq(trace[p], 1, Len(trace[p]) - 1)) = "fetch"
     THEN /\ pc' = [pc EXCEPT ![p] = "f_get"]
          /\ UNCHANGED <<ret, trace>>
     ELSE /\ pc' = [pc EXCEPT ![p] = "done"]
          /\ ret' = [ret EXCEPT ![p] = Unautorized("JWKS kid is not found")]
          /\ trace' = trace
  /\ UNCHANGED <<keys, writer, wwait, readers, gets, hist, op, jwt, kid, look,
                 snap, built, wrote, cin, cout, iter>>

(* ------------------------------------------------------------------ *)
(* JWKS.Fetch                                                          *)
(* ------------------------------------------------------------------ *)

\* a Fetch that joins a GET already outstanding instead of issuing its own
CoalescedGets(g, inflight) == IF inflight THEN g ELSE g + 1

\* the GETs issued once this Fetch has issued its own
GetsAfterFetch(g, inflight) == g + 1

\* a Fetch that takes c.mtx.Lock() before the GET
WriterLockedDuringGET(w, p) == p

\* the holder of the write lock while this Fetch's GET is outstanding
WriterDuringGET(w, p) == w

\* a Fetch that adds its keys to the map in place instead of replacing it
MergeKeys(old, new) ==
  [k \in (DOMAIN old) \cup (DOMAIN new) |-> IF k \in DOMAIN new THEN new[k] ELSE old[k]]

\* a Fetch that installs its map only into a cache that is still empty
KeepFirstKeys(old, new) == IF DOMAIN old = {} THEN new ELSE old

\* c.keys = keys
SwapKeys(old, new) == new

\* a JWTRS256Assert that reports every Fetch error with one fixed text
FetchErrFixedText(e) == Unautorized("JWKS fetch failed")

\* return userv.Unautorized(err.Error()) after jwks.Fetch returned err
FetchErrOfAssert(e) == Unautorized(e.msg)

\* Fetch returns err; JWTRS256Assert wraps it
FetchReturnsErr(p, e) ==
  /\ pc' = [pc EXCEPT ![p] = "done"]
  /\ trace' = [trace EXCEPT ![p] = Append(@, "fetch:err")]
  /\ ret' = [ret EXCEPT ![p] = IF op[p] = "assert" THEN FetchErrOfAssert(e) ELSE e]

\* c.httpc.GET is called: the request goes out
FetchGet(p) ==
  /\ pc[p] = "f_get"
  /\ gets' = GetsAfterFetch(gets, \E q \in Procs : pc[q] = "f_wait")
  /\ writer' = WriterDuringGET(writer, p)
  /\ pc' = [pc EXCEPT ![p] = "f_wait"]
  /\ trace' = [trace EXCEPT ![p] = Append(@, "fetch:call")]
  /\ UNCHANGED <<keys, wwait, readers, hist, op, jwt, kid, look, snap, built,
                 ret, wrote, cin, cout, iter>>

\* c.client.Do returns an error: the transport failed or ctx was cancelled
FetchFail(p) ==
  /\ pc[p] = "f_wait"
  /\ \E m \in {"context canceled", "connection refused"} :
       FetchReturnsErr(p, PlainError(m))
  /\ UNCHANGED <<keys, writer, wwait, readers, gets, hist, op, jwt, kid, look,
                 snap, built, wrote, cin, cout, iter>>

\* the response arrives; Fetch runs up to c.mtx.Lock()
FetchResponse(p, resp) ==
  /\ pc[p] = "f_wait"
  /\ LET b == FetchBuild(resp) IN
     IF b.kind = "err"
     THEN FetchReturnsErr(p, b.err) /\ built' = built
     ELSE IF b.kind = "panic"
     THEN /\ pc' = [pc EXCEPT ![p] = "panicked"]
          /\ trace' = [trace EXCEPT ![p] = Append(@, "fetch:panic")]
          /\ UNCHANGED <<ret, built>>
     ELSE /\ pc' = [pc EXCEPT ![p] = "f_lock"]
          /\ built' = [built EXCEPT ![p] = b.keys]
          /\ UNCHANGED <<ret, trace>>
  /\ UNCHANGED <<keys, writer, wwait, readers, gets, hist, op, jwt, kid, look,
                 snap, wrote, cin, cout, iter>>

\* c.mtx.Lock() is called: the writer announces itself
FetchLock(p) ==
  /\ pc[p] = "f_lock"
  /\ wwait' = wwait \cup {p}
  /\ pc' = [pc EXCEPT ![p] = "f_lockwait"]
  /\ UNCHANGED <<keys, writer, readers, gets, hist, op, jwt, kid, look, snap,
                 built, ret, trace, wrote, cin, cout, iter>>

\* c.mtx.Lock() returns: no writer and no reader holds the lock
LockAcquire(p) ==
  /\ pc[p] = "f_lockwait"
  /\ writer = 0
  /\ readers = {}
  /\ writer' = p
  /\ wwait' = wwait \ {p}
  /\ hist' = Append(hist, [keys |-> built[p], by |-> p])
  /\ pc' = [pc EXCEPT ![p] = "f_swap"]
  /\ UNCHANGED <<keys, readers, gets, op, jwt, kid, look, snap, built, ret,
                 trace, wrote, cin, cout, iter>>

\* c.keys = keys; return nil; the deferred c.mtx.Unlock()
FetchSwap(p) ==
  /\ pc[p] = "f_swap"
  /\ keys' = SwapKeys(keys, built[p])
  /\ wrote' = [wrote EXCEPT ![p] = @ + 1]
  /\ writer' = 0
  /\ trace' = [trace EXCEPT ![p] = Append(@, "fetch:ok")]
  /\ pc' = [pc EXCEPT ![p] = IF op[p] = "assert" THEN "k_rlock" ELSE "done"]
  /\ UNCHANGED <<wwait, readers, gets, hist, op, jwt, kid, look, snap, built,
                 ret, cin, cout, iter>>

(* ------------------------------------------------------------------ *)
(* The calls goroutines make                                           *)
(* ------------------------------------------------------------------ *)

\* JWTRS256Assert(ctx, t, jwks, ...) up to the first jwks.Key
StartAssert(p, t) ==
  /\ pc[p] = "idle"
  /\ op' = [op EXCEPT ![p] = "assert"]
  /\ jwt' = [jwt EXCEPT ![p] = Parts(t)]
  /\ LET r == AssertParse(Parts(t)) IN
     /\ trace' = [trace EXCEPT ![p] = r.stages]
     /\ IF r.err # Nil
        THEN /\ pc' = [pc EXCEPT ![p] = "done"]
             /\ ret' = [ret EXCEPT ![p] = r.err]
             /\ kid' = kid
        ELSE /\ pc' = [pc EXCEPT ![p] = "k_rlock"]
             /\ ret' = ret
             /\ kid' = [kid EXCEPT ![p] = Parts(t)[1].Kid]
  /\ UNCHANGED <<keys, writer, wwait, readers, gets, hist, look, snap, built,
                 wrote, cin, cout, iter>>

\* JWTDecodeClaims(t)
StartDecode(p, t) ==
  /\ pc[p] = "idle"
  /\ op' = [op EXCEPT ![p] = "decode"]
  /\ jwt' = [jwt EXCEPT ![p] = Parts(t)]
  /\ trace' = [trace EXCEPT ![p] = JWTDecodeClaims(Parts(t)).stages]
  /\ ret' = [ret EXCEPT ![p] = JWTDecodeClaims(Parts(t)).err]
  /\ pc' = [pc EXCEPT ![p] = "done"]
  /\ UNCHANGED <<keys, writer, wwait, readers, gets, hist, kid, look, snap,
                 built, wrote, cin, cout, iter>>

\* jwks.Fetch(ctx) called directly
StartFetch(p) ==
  /\ pc[p] = "idle"
  /\ op' = [op EXCEPT ![p] = "fetch"]
  /\ pc' = [pc EXCEPT ![p] = "f_get"]
  /\ UNCHANGED <<keys, writer, wwait, readers, gets, hist, jwt, kid, look, snap,
                 built, ret, trace, wrote, cin, cout, iter>>

\* jwks.Key(k) called directly
StartKey(p, k) ==
  /\ pc[p] = "idle"
  /\ op' = [op EXCEPT ![p] = "key"]
  /\ kid' = [kid EXCEPT ![p] = k]
  /\ pc' = [pc EXCEPT ![p] = "k_rlock"]
  /\ UNCHANGED <<keys, writer, wwait, readers, gets, hist, jwt, look, snap,
                 built, ret, trace, wrote, cin, cout, iter>>

Next ==
  \E p \in Procs :
    \/ \E t \in ConcTokens : StartAssert(p, t)
    \/ StartFetch(p)
    \/ \E k \in Kids : StartKey(p, k)
    \/ KeyRLock(p)
    \/ KeyRead(p)
    \/ KeyReturn(p)
    \/ AssertAfterKey(p)
    \/ FetchGet(p)
    \/ FetchFail(p)
    \/ \E resp \in Responses : FetchResponse(p, resp)
    \/ FetchLock(p)
    \/ LockAcquire(p)
    \/ FetchSwap(p)

Spec == Init /\ [][Next]_vars

(* ------------------------------------------------------------------ *)
(* The cache alone: goroutines that call Fetch and Key directly         *)
(* ------------------------------------------------------------------ *)

NextCache ==
  \E p \in Procs :
    \/ StartFetch(p)
    \/ \E k \in Kids : StartKey(p, k)
    \/ KeyRLock(p)
    \/ KeyRead(p)
    \/ KeyReturn(p)
    \/ FetchGet(p)
    \/ FetchFail(p)
    \/ \E resp \in Responses : FetchResponse(p, resp)
    \/ FetchLock(p)
    \/ LockAcquire(p)
    \/ FetchSwap(p)

\* NewJWKS: an empty cache, shared by NumProcs goroutines
InitCache == InitWith(Procs, EmptyKeys, NoArgs)

SpecCache == InitCache /\ [][NextCache]_vars

\* The scheduler runs every goroutine that can take a step; nothing makes the
\* key-set source answer, and nothing makes a goroutine start a call.
FairCache ==
  /\ SpecCache
  /\ \A p \in Procs :
       /\ WF_vars(KeyRLock(p))
       /\ WF_vars(KeyRead(p))
       /\ WF_vars(KeyReturn(p))
       /\ WF_vars(FetchLock(p))
       /\ WF_vars(LockAcquire(p))
       /\ WF_vars(FetchSwap(p))

(* ------------------------------------------------------------------ *)
(* The lock of the cache: the same goroutines, and a key-set source     *)
(* with fewer answers                                                   *)
(* ------------------------------------------------------------------ *)

\* a key set, another key set, and a null entry, at which Fetch panics; a
\* Fetch that returns an error is the one whose GET fails
LockResponses ==
  { Response(200, TRUE, <<JwkA>>),
    Response(200, TRUE, <<JwkEC, JwkB>>),
    Response(200, TRUE, <<NullJWK>>) }

NextLock ==
  \E p \in Procs :
    \/ StartFetch(p)
    \/ \E k \in Kids : StartKey(p, k)
    \/ KeyRLock(p)
    \/ KeyRead(p)
    \/ KeyReturn(p)
    \/ FetchGet(p)
    \/ FetchFail(p)
    \/ \E resp \in LockResponses : FetchResponse(p, resp)
    \/ FetchLock(p)
    \/ LockAcquire(p)
    \/ FetchSwap(p)

SpecLock == InitCache /\ [][NextLock]_vars

\* The scheduler runs every goroutine that can take a step; nothing makes the
\* key-set source answer, and nothing makes a goroutine start a call.
FairLock ==
  /\ SpecLock
  /\ \A p \in Procs :
       /\ WF_vars(KeyRLock(p))
       /\ WF_vars(KeyRead(p))
       /\ WF_vars(KeyReturn(p))
       /\ WF_vars(FetchLock(p))
       /\ WF_vars(LockAcquire(p))
       /\ WF_vars(FetchSwap(p))

(* ------------------------------------------------------------------ *)
(* One JWTRS256Assert call against a cache in any state a Fetch leaves  *)
(* ------------------------------------------------------------------ *)

\* the maps a successful Fetch can build from a response
BuiltSets ==
  {FetchBuild(resp).keys : resp \in {r \in Responses : FetchBuild(r).kind = "ok"}}

\* one caller; the cache is empty or holds what an earlier Fetch installed
InitSeq == \E ks \in {EmptyKeys} \cup BuiltSets : InitWith({1}, ks, NoArgs)

NextSeq ==
  \E p \in Procs :
    \/ \E t \in AllTokens : StartAssert(p, t)
    \/ \E t \in AllTokens : StartDecode(p, t)
    \/ KeyRLock(p)
    \/ KeyRead(p)
    \/ KeyReturn(p)
    \/ AssertAfterKey(p)
    \/ FetchGet(p)
    \/ FetchFail(p)
    \/ \E resp \in Responses : FetchResponse(p, resp)
    \/ FetchLock(p)
    \/ LockAcquire(p)
    \/ FetchSwap(p)

SpecSeq == InitSeq /\ [][NextSeq]_vars

(* ------------------------------------------------------------------ *)
(* jwtClaimsCheck on its own, over claims, policies and clock values    *)
(* ------------------------------------------------------------------ *)

ClaimsInputs ==
  { JWTClaims(iss, use, exp, cid, roles, aud) :
      iss \in {"iss", "evil"}, use \in {TokenUseAccess, TokenUseID, "other"},
      exp \in 0..MaxSec, cid \in {"c1", "cX"},
      roles \in {<<>>, <<"admin">>, <<"guest", "billing">>, <<"billing", "admin">>},
      aud \in {"c1", "cX"} }

Policies ==
  { Policy("iss", use, <<"c0", "c1">>, roles) :
      use \in {TokenUseAccess, TokenUseID, "other"},
      roles \in { <<>>, <<<<"admin", "owner">>, <<"billing">>>>,
                  <<<<"billing">>, <<"admin">>>>, <<<<>>>> } }

InitClaims ==
  \E args \in [claims : ClaimsInputs, now : Times, pol : Policies] :
    InitWith({}, EmptyKeys, args)

\* jwtClaimsCheck(&claims, issuer, tokenUse, clientIDs, roles)
ClaimsCall ==
  /\ cout = Pending
  /\ cin # NoArgs
  /\ cout' = jwtClaimsCheck(cin.claims, cin.pol.issuer, cin.pol.tokenUse,
                            cin.pol.clientIDs, cin.pol.roles, cin.now)
  /\ UNCHANGED <<keys, writer, wwait, readers, gets, hist, pc, op, jwt, kid,
                 look, snap, built, ret, trace, wrote, cin, iter>>

NextClaims == ClaimsCall

SpecClaims == InitClaims /\ [][NextClaims]_vars

(* ------------------------------------------------------------------ *)
(* jwkToRSA on its own, over exponent byte strings                      *)
(* ------------------------------------------------------------------ *)

ExpBytes == {0, 1, 255}

\* the byte strings base64url decoding of jwk.E can give
Exponents == UNION {[1..n -> ExpBytes] : n \in 0..MaxExpLen}

JWKInputs ==
  {JWK("k1", "RSA", B64(<<11>>), B64(eb)) : eb \in Exponents} \cup
  {JWK("k1", "RSA", B64(<<11>>), BadB64), JwkBadN}

InitJWK == \E j \in JWKInputs : InitWith({}, EmptyKeys, [jwk |-> j])

\* jwkToRSA(jwk)
JwkToRSACall ==
  /\ cout = Pending
  /\ cout' = jwkToRSA(cin.jwk)
  /\ UNCHANGED <<keys, writer, wwait, readers, gets, hist, pc, op, jwt, kid,
                 look, snap, built, ret, trace, wrote, cin, iter>>

NextJWK == JwkToRSACall

SpecJWK == InitJWK /\ [][NextJWK]_vars

(* ------------------------------------------------------------------ *)

(* ucheck.ContainsAll and ucheck.ContainsAny on their own               *)
(* ------------------------------------------------------------------ *)

Elts == {"a", "b", "c"}

\* the slices of at most MaxLen elements
Slices == UNION {[1..n -> Elts] : n \in 0..MaxLen}

InitContains ==
  \E fn \in {"ContainsAll", "ContainsAny"}, set \in Slices, query \in Slices :
    InitWith({}, EmptyKeys, [set |-> set, query |-> query, fn |-> fn])

\* ucheck.ContainsAll(set, query)
ContainsAllCall ==
  /\ cout = Pending
  /\ cin.fn = "ContainsAll"
  /\ cout' = ContainsAll(cin.set, cin.query)
  /\ UNCHANGED <<keys, writer, wwait, readers, gets, hist, pc, op, jwt, kid,
                 look, snap, built, ret, trace, wrote, cin, iter>>

\* ucheck.ContainsAny(set, query)
ContainsAnyCall ==
  /\ cout = Pending
  /\ cin.fn = "ContainsAny"
  /\ cout' = ContainsAny(cin.set, cin.query)
  /\ UNCHANGED <<keys, writer, wwait, readers, gets, hist, pc, op, jwt, kid,
                 look, snap, built, ret, trace, wrote, cin, iter>>

NextContains == ContainsAllCall \/ ContainsAnyCall

SpecContains == InitContains /\ [][NextContains]_vars

(* ------------------------------------------------------------------ *)

(* uquery.Retry                                                        *)
(* An error of query carries its text, the sequence of its characters.  *)
(* ------------------------------------------------------------------ *)

\* strings.Contains(s, substr)
StrContains(s, substr) ==
  \E i \in 1..(Len(s) + 1) :
    /\ i + Len(substr) - 1 <= Len(s)
    /\ SubSeq(s, i, i + Len(substr) - 1) = substr

\* var err error: the nil error of Retry
NoErr == [class |-> "nil", text |-> <<>>]

\* an error whose Error() is the text t
ErrText(t) == [class |-> "error", text |-> t]

Texts == {<<>>, <<"a">>, <<"b">>, <<"a", "b">>, <<"b", "a">>}

\* what a call of query can return
QueryResults == {NoErr} \cup {ErrText(t) : t \in Texts}

Failures == {<<>>, <<"a">>, <<"a", "b">>}

\* err != nil && strings.Contains(err.Error(), failure)
Retriable(err, failure) == err # NoErr /\ StrContains(err.text, failure)

\* a loop that makes one attempt more than times
OneMoreIteration(i, times) == i <= times

\* for range times: whether an iteration follows the i begun so far
MoreIterations(i, times) == i < times

\* one goroutine is about to call Retry(query, times, failure)
InitRetry ==
  \E times \in (0 - 1)..MaxTimes, failure \in Failures :
    InitWith({1}, EmptyKeys, [failure |-> failure, times |-> times])

\* Retry is entered: var err error
StartRetry(p) ==
  /\ pc[p] = "idle"
  /\ op' = [op EXCEPT ![p] = "retry"]
  /\ ret' = [ret EXCEPT ![p] = NoErr]
  /\ pc' = [pc EXCEPT ![p] = "r_loop"]
  /\ UNCHANGED <<keys, writer, wwait, readers, gets, hist, jwt, kid, look, snap,
                 built, trace, wrote, cin, cout, iter>>

\* the head of the loop: the next iteration begins, or the loop is over and
\* Retry returns err
RetryLoop(p) ==
  /\ pc[p] = "r_loop"
  /\ IF MoreIterations(iter, cin.times)
     THEN iter' = iter + 1 /\ pc' = [pc EXCEPT ![p] = "r_call"]
     ELSE iter' = iter /\ pc' = [pc EXCEPT ![p] = "done"]
  /\ UNCHANGED <<keys, writer, wwait, readers, gets, hist, op, jwt, kid, look,
                 snap, built, ret, trace, wrote, cin, cout>>

\* err = query() returns; on an error that is not to be retried, and on nil,
\* break and return err
RetryCall(p) ==
  /\ pc[p] = "r_call"
  /\ \E e \in QueryResults :
       /\ ret' = [ret EXCEPT ![p] = e]
       /\ trace' = [trace EXCEPT ![p] = Append(@, e)]
       /\ pc' = [pc EXCEPT ![p] =
                   IF Retriable(e, cin.failure) THEN "r_sleep" ELSE "done"]
  /\ UNCHANGED <<keys, writer, wwait, readers, gets, hist, op, jwt, kid, look,
                 snap, built, wrote, cin, cout, iter>>

\* time.Sleep returns; continue
RetrySleep(p) ==
  /\ pc[p] = "r_sleep"
  /\ pc' = [pc EXCEPT ![p] = "r_loop"]
  /\ UNCHANGED <<keys, writer, wwait, readers, gets, hist, op, jwt, kid, look,
                 snap, built, ret, trace, wrote, cin, cout, iter>>

NextRetry ==
  \E p \in Procs :
    \/ StartRetry(p)
    \/ RetryLoop(p)
    \/ RetryCall(p)
    \/ RetrySleep(p)

SpecRetry == InitRetry /\ [][NextRetry]_vars

\* The goroutine inside Retry keeps running, the sleep ends and every call of
\* query returns; nothing makes a goroutine call Retry.
FairRetry ==
  /\ SpecRetry
  /\ \A p \in Procs :
       /\ WF_vars(RetryLoop(p))
       /\ WF_vars(RetryCall(p))
       /\ WF_vars(RetrySleep(p))

(* ------------------------------------------------------------------ *)

(* Reading a call's trace                                              *)
(* ------------------------------------------------------------------ *)

CacheEvents ==
  {"key:hit", "key:miss", "fetch:call", "fetch:ok", "fetch:err", "fetch:panic"}

IsCacheEvent(e) == e \in CacheEvents

\* the calls to Key and Fetch a call has made, with their outcomes
CacheCalls(tr) == SelectSeq(tr, IsCacheEvent)

IsPrefix(s, t) == Len(s) <= Len(t) /\ SubSeq(t, 1, Len(s)) = s

RECURSIVE StagesOf(_)
\* the stages of a trace: the calls of the key resolution count as one stage
StagesOf(tr) ==
  IF tr = <<>> THEN <<>>
  ELSE LET rest == StagesOf(Tail(tr)) IN
    IF Head(tr) \in CacheEvents
    THEN IF rest # <<>> /\ Head(rest) = "key" THEN rest ELSE <<"key">> \o rest
    ELSE <<Head(tr)>> \o rest

Asserting(p) == op[p] = "assert"

Ended(p) == pc[p] \in {"done", "panicked"}

\* the stage an error message of JWTRS256Assert belongs to
StageOfError(e) ==
  IF e.msg = "invalid JWT format" THEN "split"
  ELSE IF e.msg \in {"invalid JWT header encoding", "invalid JWT header format"}
    THEN "header"
  ELSE IF e.msg = "unsupported JWT signature algorithm" THEN "alg"
  ELSE IF e.msg \in {"invalid JWT signature format", "invalid JWT signature"}
    THEN "verify"
  ELSE IF e.msg \in {"invalid JWT claims encoding", "invalid JWT claims format"}
    THEN "claims"
  ELSE IF e.msg \in {"invalid JWT issuer", "invalid JWT use", "expired JWT",
                     "invalid client ID", "invalid token use"}
          \/ e.class = "Forbidden"
    THEN "check"
  ELSE "key"

\* whether a stage passes for the call of p, read off the token and the lookup
StagePasses(st, p) ==
  IF st = "split" THEN Len(jwt[p]) = 3
  ELSE IF st = "header" THEN jwt[p][1].enc /\ jwt[p][1].json
  ELSE IF st = "alg" THEN jwt[p][1].Alg = "RS256"
  ELSE IF st = "key" THEN look[p].exist
  ELSE IF st = "verify"
    THEN /\ jwt[p][3].enc
         /\ jwt[p][3].signer = look[p].pub
         /\ jwt[p][3].over = <<jwt[p][1], jwt[p][2]>>
  ELSE IF st = "claims" THEN jwt[p][2].enc /\ jwt[p][2].json
  ELSE ret[p] = Nil

(* ------------------------------------------------------------------ *)
(* C1                                                                  *)
(* ------------------------------------------------------------------ *)

AllStagesPassed(p) ==
  /\ StagesOf(trace[p]) = <<"split", "header", "alg", "key", "verify", "claims", "check">>
  /\ \A st \in {"split", "header", "alg", "key", "verify", "claims"} : StagePasses(st, p)
  /\ \E now \in Times :
       jwtClaimsCheck(jwt[p][2].claims, Pol0.issuer, Pol0.tokenUse,
                      Pol0.clientIDs, Pol0.roles, now) = Nil

\* C1: every JWTRS256Assert call that ends either returns nil, and then the
\* token had three segments, its header decoded with alg RS256, a key for its
\* kid was found, the signature verified, the claims decoded and
\* jwtClaimsCheck passed; or returns an Unautorized or a Forbidden error.
C1_FailClosed ==
  \A p \in Procs :
    (Asserting(p) /\ Ended(p)) =>
      /\ pc[p] = "done"
      /\ \/ ret[p] = Nil /\ AllStagesPassed(p)
         \/ ret[p].class \in {"Unautorized", "Forbidden"}

(* ------------------------------------------------------------------ *)
(* C2                                                                  *)
(* ------------------------------------------------------------------ *)

\* the maps installed so far: the initial one and the one of each Fetch that
\* took the write lock
InstalledMaps == {EmptyKeys} \cup {hist[i].keys : i \in 1..Len(hist)}

HasRead(p) ==
  \/ pc[p] = "k_runlock"
  \/ \E i \in 1..Len(trace[p]) : trace[p][i] \in {"key:hit", "key:miss"}

\* C2: the map a Key call reads is, whole, the initial map or the map built by
\* one Fetch, and the answer of Key is the lookup in that map; a reader holds
\* the read lock while no writer holds the write lock.
C2_CacheAtomicity ==
  /\ \A p \in Procs :
       HasRead(p) =>
         /\ snap[p] \in InstalledMaps
         /\ look[p] = Lookup(snap[p], kid[p])
  /\ (readers # {} => writer = 0)

\* a Key call answered from a non-empty old map while a Fetch was in progress
C2_Witness ==
  \E p \in Procs, q \in Procs :
    /\ op[p] = "key" /\ pc[p] = "done" /\ snap[p] # EmptyKeys /\ look[p].exist
    /\ op[q] = "fetch" /\ pc[q] = "f_lockwait" /\ built[q] # snap[p]

(* ------------------------------------------------------------------ *)
(* C3                                                                  *)
(* ------------------------------------------------------------------ *)

\* C3: a Fetch that ended without installing a key set returned an error and
\* made no assignment to the cache's map.
C3_FailedFetchReturnsError ==
  \A p \in Procs :
    (op[p] = "fetch" /\ Ended(p) /\ ~Contains(trace[p], "fetch:ok")) =>
      /\ pc[p] = "done"
      /\ ret[p] # Nil
      /\ wrote[p] = 0

(* ------------------------------------------------------------------ *)
(* C4                                                                  *)
(* ------------------------------------------------------------------ *)

AllowedCacheCalls ==
  { <<"key:hit">>,
    <<"key:miss", "fetch:call", "fetch:err">>,
    <<"key:miss", "fetch:call", "fetch:panic">>,
    <<"key:miss", "fetch:call", "fetch:ok", "key:hit">>,
    <<"key:miss", "fetch:call", "fetch:ok", "key:miss">> }

\* C4: within one JWTRS256Assert call the cache calls are a lookup, then, only
\* after a miss, one Fetch, then, only after that Fetch returned nil, one more
\* lookup; a call whose first lookup hit makes no Fetch and no assignment to
\* the map.
C4_OneFetchTwoLookups ==
  \A p \in Procs :
    Asserting(p) =>
      /\ \E a \in AllowedCacheCalls : IsPrefix(CacheCalls(trace[p]), a)
      /\ (CacheCalls(trace[p]) # <<>> /\ CacheCalls(trace[p])[1] = "key:hit")
           => wrote[p] = 0
      /\ wrote[p] <= 1

\* a call that missed, fetched, and found the key on its second lookup
C4_Witness ==
  \E p \in Procs :
    /\ Asserting(p) /\ pc[p] = "done"
    /\ CacheCalls(trace[p]) = <<"key:miss", "fetch:call", "fetch:ok", "key:hit">>
    /\ \E q \in Procs :
         /\ Asserting(q) /\ pc[q] = "done"
         /\ CacheCalls(trace[q]) = <<"key:hit">>

(* ------------------------------------------------------------------ *)
(* C5                                                                  *)
(* ------------------------------------------------------------------ *)

\* the JWTRS256Assert calls whose GET for the kid k is outstanding
Refetching(k) == {p \in Procs : Asserting(p) /\ kid[p] = k /\ pc[p] = "f_wait"}

\* C5 as claimed: callers that miss the cache for the same kid at the same
\* time share one GET.
C5_SingleFetch == \A k \in Kids : Cardinality(Refetching(k)) <= 1

\* the calls that have issued a GET
Fetchers == {p \in Procs : Contains(trace[p], "fetch:call")}

\* C5 as amended: every Fetch call issues its own GET, so the GETs issued are
\* as many as the calls that reached Fetch, and every JWTRS256Assert call
\* that missed and went on has issued exactly one.
C5_FetchPerCaller ==
  /\ gets = Cardinality(Fetchers)
  /\ \A p \in Procs :
       (Asserting(p) /\ pc[p] = "f_wait") => p \in Fetchers

\* all callers missed for the same kid and each has its own GET outstanding
C5_Witness ==
  \E k \in Kids : Refetching(k) = 1..NumCallers /\ gets = NumCallers

(* ------------------------------------------------------------------ *)
(* C6                                                                  *)
(* ------------------------------------------------------------------ *)

\* the write lock is held only for the assignment of the map
LockOnlyForSwap ==
  /\ \A p \in Procs :
       pc[p] \in {"f_get", "f_wait", "f_lock", "f_lockwait"} =>
         (writer # p /\ p \notin readers)
  /\ (writer # 0 => pc[writer] = "f_swap")

\* a lookup waits for writers only: readers that hold the lock do not stop it
ReadersDoNotBlock ==
  \A p \in Procs :
    (pc[p] = "k_rlock" /\ writer = 0 /\ wwait = {}) => ENABLED KeyRLock(p)

\* C6: no Fetch holds the write lock while its GET is outstanding, a lookup is
\* never stopped by other lookups, and every lookup that has started completes
\* even if no GET is ever answered.
C6_NoLockAcrossNetwork ==
  /\ [](LockOnlyForSwap /\ ReadersDoNotBlock)
  /\ \A p \in Procs : (pc[p] = "k_rlock") ~> (pc[p] = "done")

\* two lookups hold the read lock together while a GET is outstanding
C6_Witness ==
  \E f \in Procs, r1 \in Procs, r2 \in Procs :
    /\ r1 # r2
    /\ pc[f] = "f_wait"
    /\ pc[r1] = "k_read" /\ pc[r2] = "k_read"
    /\ {r1, r2} \subseteq readers

(* ------------------------------------------------------------------ *)
(* C7                                                                  *)
(* ------------------------------------------------------------------ *)

\* C7: the map of the cache is always the initial empty map or, whole, the
\* key set one Fetch built from one response; whenever no writer is inside the
\* write lock, it is the map of the Fetch that took the write lock last.
C7_LastWriterWins ==
  /\ keys \in {EmptyKeys} \cup BuiltSets
  /\ writer = 0 =>
       keys = IF hist = <<>> THEN EmptyKeys ELSE hist[Len(hist)].keys

\* two Fetch calls built different maps, both were installed, all calls ended
C7_Witness ==
  /\ Len(hist) = 2
  /\ hist[1].keys # hist[2].keys
  /\ keys = hist[2].keys
  /\ \A p \in Procs : op[p] = "fetch" => pc[p] = "done"

(* ------------------------------------------------------------------ *)
(* C8                                                                  *)
(* ------------------------------------------------------------------ *)

\* the order of the stages as claimed: the claims are decoded before the
\* signature is verified
ClaimedOrder == <<"split", "header", "alg", "key", "claims", "verify", "check">>

\* the order of the stages in JWTRS256Assert
CodeOrder == <<"split", "header", "alg", "key", "verify", "claims", "check">>

\* the stages of the call of p ran in the given order, every stage but the
\* last one passed, and the error returned is that of the last stage, which
\* failed; nil is returned only after all the stages
RanInOrder(p, order) ==
  LET st == StagesOf(trace[p]) IN
  /\ IsPrefix(st, order)
  /\ \A i \in 1..(Len(st) - 1) : StagePasses(st[i], p)
  /\ pc[p] = "done" =>
       /\ ret[p] # Nil =>
            /\ StageOfError(ret[p]) = st[Len(st)]
            /\ ~StagePasses(st[Len(st)], p)
       /\ ret[p] = Nil => st = order

\* C8 as claimed: the stages run in the order split, header, alg, key, decode
\* claims, verify signature, check claims, and the first failing one gives
\* the error.
C8_ClaimedStageOrder == \A p \in Procs : Asserting(p) => RanInOrder(p, ClaimedOrder)

\* C8 as amended: the stages run in the order split, header, alg, key, verify
\* signature, decode claims, check claims; the first failing stage gives the
\* error returned and no later stage runs.
C8_StageOrder == \A p \in Procs : Asserting(p) => RanInOrder(p, CodeOrder)

\* a token with an undecodable claims segment and an invalid signature was
\* rejected for its signature
C8_Witness ==
  \E p \in Procs :
    /\ Asserting(p) /\ pc[p] = "done"
    /\ look[p].exist
    /\ ~jwt[p][2].enc
    /\ jwt[p][3].enc /\ jwt[p][3].signer # look[p].pub
    /\ ret[p] = Unautorized("invalid JWT signature")

(* ------------------------------------------------------------------ *)
(* C9                                                                  *)
(* ------------------------------------------------------------------ *)

Elems(sq) == {sq[i] : i \in 1..Len(sq)}

BadIssuer == cin.claims.Iss # cin.pol.issuer

BadUse == cin.claims.TokenUse # cin.pol.tokenUse

\* exp, a whole second, lies before the clock reading
PastExpiry ==
  \/ cin.claims.Exp < cin.now.sec
  \/ (cin.claims.Exp = cin.now.sec /\ cin.now.nsec > 0)

BadClient ==
  \/ cin.pol.tokenUse = TokenUseAccess
       /\ cin.claims.ClientID \notin Elems(cin.pol.clientIDs)
  \/ cin.pol.tokenUse = TokenUseID
       /\ cin.claims.Aud \notin Elems(cin.pol.clientIDs)
  \/ cin.pol.tokenUse \notin {TokenUseAccess, TokenUseID}

MissingRole ==
  \E i \in 1..Len(cin.pol.roles) :
    Elems(cin.pol.roles[i]) \cap Elems(cin.claims.Roles) = {}

Called == cout # Pending

\* C9: the error jwtClaimsCheck returns is that of the first violated check in
\* the order issuer, token use, expiry, client id, roles.
C9_FirstFailureWins ==
  Called =>
    /\ BadIssuer => cout = Unautorized("invalid JWT issuer")
    /\ (~BadIssuer /\ BadUse) => cout = Unautorized("invalid JWT use")
    /\ (~BadIssuer /\ ~BadUse /\ PastExpiry) => cout = Unautorized("expired JWT")
    /\ (~BadIssuer /\ ~BadUse /\ ~PastExpiry /\ BadClient) =>
         /\ cout.class = "Unautorized"
         /\ cout.msg \in {"invalid client ID", "invalid token use"}
    /\ (~BadIssuer /\ ~BadUse /\ ~PastExpiry /\ ~BadClient /\ MissingRole) =>
         cout.class = "Forbidden"
    /\ (~BadIssuer /\ ~BadUse /\ ~PastExpiry /\ ~BadClient /\ ~MissingRole) =>
         cout = Nil

\* expired claims that also lack a role were rejected as expired
C9_Witness ==
  /\ Called
  /\ ~BadIssuer /\ ~BadUse /\ PastExpiry /\ MissingRole
  /\ cout = Unautorized("expired JWT")

(* ------------------------------------------------------------------ *)
(* C10                                                                 *)
(* ------------------------------------------------------------------ *)

ReachedExpiry == Called /\ ~BadIssuer /\ ~BadUse

\* C10 as claimed: the expiry check rejects exactly when exp is less than the
\* clock reading cut to whole seconds.
C10_WholeSecondExpiry ==
  ReachedExpiry =>
    (cout = Unautorized("expired JWT") <=> cin.claims.Exp < cin.now.sec)

\* C10 as amended: the expiry check rejects exactly when the instant exp
\* seconds, zero nanoseconds lies before the clock reading at its full
\* resolution: an exp in an earlier second is rejected, an exp equal to the
\* current second is accepted only at the very start of that second.
C10_InstantExpiry ==
  ReachedExpiry =>
    (cout = Unautorized("expired JWT") <=>
       \/ cin.claims.Exp < cin.now.sec
       \/ (cin.claims.Exp = cin.now.sec /\ cin.now.nsec # 0))

\* a token whose exp is the current second was rejected within that second
C10_Witness ==
  /\ ReachedExpiry
  /\ cin.claims.Exp = cin.now.sec /\ cin.now.nsec > 0
  /\ cout = Unautorized("expired JWT")

(* ------------------------------------------------------------------ *)
(* C11                                                                 *)
(* ------------------------------------------------------------------ *)

\* the call got past the issuer, token use and expiry checks
ReachedClientID == ReachedExpiry /\ ~PastExpiry

\* the client id check let the call through to the roles
PassedClientID == cout = Nil \/ cout.class = "Forbidden"

\* C11: past the expiry check, with expected token use "access" the call
\* passes the client id check iff claims.ClientID is one of the accepted
\* client ids, with "id" iff claims.Aud is; a non-member is rejected with
\* Unautorized "invalid client ID"; any other expected token use is rejected
\* with Unautorized "invalid token use".
C11_ClientIDBranches ==
  ReachedClientID =>
    /\ cin.pol.tokenUse = TokenUseAccess =>
         IF cin.claims.ClientID \in Elems(cin.pol.clientIDs)
         THEN PassedClientID ELSE cout = Unautorized("invalid client ID")
    /\ cin.pol.tokenUse = TokenUseID =>
         IF cin.claims.Aud \in Elems(cin.pol.clientIDs)
         THEN PassedClientID ELSE cout = Unautorized("invalid client ID")
    /\ cin.pol.tokenUse \notin {TokenUseAccess, TokenUseID} =>
         cout = Unautorized("invalid token use")

\* a token whose token_use equals an expected token use that is neither
\* "access" nor "id" was rejected for its token use, its client ids accepted
C11_Witness ==
  /\ ReachedClientID
  /\ cin.pol.tokenUse = "other" /\ cin.claims.TokenUse = "other"
  /\ cin.claims.ClientID \in Elems(cin.pol.clientIDs)
  /\ cin.claims.Aud \in Elems(cin.pol.clientIDs)
  /\ cout = Unautorized("invalid token use")

(* ------------------------------------------------------------------ *)
(* C12                                                                 *)
(* ------------------------------------------------------------------ *)

\* the call got past every check before the roles
ReachedRoles == ReachedClientID /\ ~BadClient

\* the groups of the policy that share no element with claims.Roles
Unsatisfied ==
  {i \in 1..Len(cin.pol.roles) :
     Elems(cin.pol.roles[i]) \cap Elems(cin.claims.Roles) = {}}

FirstUnsatisfied == CHOOSE i \in Unsatisfied : \A j \in Unsatisfied : i <= j

\* C12: past the client id check the call returns nil iff every group of the
\* policy shares an element with claims.Roles; otherwise it returns Forbidden
\* and the message lists, in order and separated by ", ", the members of the
\* first group that shares none. No group at all is no constraint; an empty
\* group is never satisfied.
C12_RoleGroups ==
  ReachedRoles =>
    /\ cout = Nil <=> Unsatisfied = {}
    /\ Unsatisfied # {} =>
         cout = Forbidden("missing role: at least one of "
                          \o Join(cin.pol.roles[FirstUnsatisfied], ", ")
                          \o " is required")
    /\ cin.pol.roles = <<>> => cout = Nil
    /\ (\E i \in 1..Len(cin.pol.roles) : cin.pol.roles[i] = <<>>) => cout # Nil

\* the claims satisfy the first of two groups and not the second: Forbidden
\* names the second group
C12_Witness ==
  /\ ReachedRoles
  /\ cin.pol.roles = <<<<"admin", "owner">>, <<"billing">>>>
  /\ cin.claims.Roles = <<"admin">>
  /\ cout = Forbidden("missing role: at least one of billing is required")

(* ------------------------------------------------------------------ *)
(* C13                                                                 *)
(* ------------------------------------------------------------------ *)

\* the exponent bytes of the JWK given to jwkToRSA
ExpOfInput == cin.jwk.E.bytes

\* the unsigned big-endian value of a byte string exceeds 2^32-1: it has a
\* non-zero byte above its low four bytes
Above32Bits(bs) == Len(StripZeros(bs)) > 4

\* jwkToRSA was called on a JWK whose n and e are base64url
DecodedJWK == cout # Pending /\ cin.jwk.N.ok /\ cin.jwk.E.ok

\* C13: jwkToRSA returns an error for every exponent whose big-endian value
\* exceeds 2^32-1, whatever the number of its bytes, and the exponent of a
\* key it returns is the big-endian value of the exponent bytes.
C13_ExponentChecked ==
  DecodedJWK =>
    /\ Above32Bits(ExpOfInput) => cout.err
    /\ ~cout.err => cout.pub.E = StripZeros(ExpOfInput)

(* ------------------------------------------------------------------ *)
(* C14                                                                 *)
(* ------------------------------------------------------------------ *)

\* the calls that split a token
Splitting(p) == op[p] \in {"assert", "decode"}

HasEmptySegment(parts) == \E i \in 1..Len(parts) : parts[i] = EmptySeg

\* the call of p was refused at the format check, before anything else
RefusedAtSplit(p) ==
  /\ pc[p] = "done"
  /\ trace[p] = <<"split">>
  /\ ret[p] = IF Asserting(p) THEN Unautorized("invalid JWT format")
              ELSE PlainError("invalid JWT format")

\* C14 as claimed: a token is refused at the format check, before any
\* decoding, lookup or fetch, unless it has exactly three segments that are
\* all non-empty.
C14_NonEmptySegments ==
  \A p \in Procs :
    Splitting(p) =>
      (RefusedAtSplit(p) <=> (Len(jwt[p]) # 3 \/ HasEmptySegment(jwt[p])))

\* the stage that follows the format check
FirstDecoded(p) == IF Asserting(p) THEN "header" ELSE "claims"

\* C14 as amended: a token is refused at the format check, before any
\* decoding, lookup or fetch, exactly when it does not have three segments.
\* A token of three segments passes the format check whether or not some of
\* them are empty: the call goes on to decode the header (JWTRS256Assert) or
\* the claims (JWTDecodeClaims) and never returns the format error.
C14_ThreeSegments ==
  \A p \in Procs :
    Splitting(p) =>
      /\ RefusedAtSplit(p) <=> Len(jwt[p]) # 3
      /\ Len(jwt[p]) = 3 =>
           /\ Len(trace[p]) > 1
           /\ trace[p][2] = FirstDecoded(p)
           /\ ret[p].msg # "invalid JWT format"

\* "h.c.": a token with an empty signature caused a lookup that missed and a
\* Fetch, and was then refused for its signature
C14_Witness ==
  \E p \in Procs :
    /\ Asserting(p) /\ pc[p] = "done"
    /\ Len(jwt[p]) = 3 /\ jwt[p][3] = EmptySeg
    /\ Contains(trace[p], "fetch:ok")
    /\ ret[p] = Unautorized("invalid JWT signature")

(* ------------------------------------------------------------------ *)
(* C15                                                                 *)
(* ------------------------------------------------------------------ *)

\* an element of "keys" with kty "RSA" whose n and e decode to a key
Usable(jwk) == ~jwk.nil /\ jwk.Kty = "RSA" /\ ~jwkToRSA(jwk).err

UsableAt(resp) == {i \in 1..Len(resp.keys) : Usable(resp.keys[i])}

\* the usable keys of a response by kid, the last one of each kid
UsableKeys(resp) ==
  [k \in {resp.keys[i].Kid : i \in UsableAt(resp)} |->
     LET last == CHOOSE i \in UsableAt(resp) :
                   /\ resp.keys[i].Kid = k
                   /\ \A j \in UsableAt(resp) : resp.keys[j].Kid = k => j <= i
     IN jwkToRSA(resp.keys[last]).pub]

\* a Fetch that receives a 200 response with a JSON body goes on to install
\* the usable keys of the response, or returns an error if there is none
PermissiveStep(p, resp) ==
  (FetchResponse(p, resp) /\ resp.status = 200 /\ resp.json) =>
    IF DOMAIN UsableKeys(resp) = {}
    THEN pc'[p] = "done" /\ ret'[p] # Nil /\ wrote'[p] = wrote[p]
    ELSE pc'[p] = "f_lock" /\ built'[p] = UsableKeys(resp)

\* every entry of the cache is the key of a usable JWK of some response
OnlyRSAEntries ==
  \A k \in DOMAIN keys :
    \E resp \in Responses : \E i \in UsableAt(resp) :
      resp.keys[i].Kid = k /\ jwkToRSA(resp.keys[i]).pub = keys[k]

\* C15: from a 200 response Fetch installs exactly the keys of the elements
\* whose kty is "RSA" and that decode, skipping all other elements; it returns
\* an error and installs nothing iff there is no such element; every entry of
\* the cache comes from an element with kty "RSA".
C15_PermissivePerKey ==
  /\ [][\A p \in Procs : \A resp \in Responses : PermissiveStep(p, resp)]_vars
  /\ [][\A p \in Procs : FetchSwap(p) => keys' = built[p]]_vars
  /\ []OnlyRSAEntries

(* ------------------------------------------------------------------ *)
(* C16                                                                 *)
(* ------------------------------------------------------------------ *)

\* the texts of the errors Fetch can return
FetchErrorTexts ==
  {"context canceled", "connection refused"} \cup
  {FetchBuild(resp).err.msg : resp \in {r \in Responses : FetchBuild(r).kind = "err"}}

\* the stages after the key resolution
LaterStages == {"verify", "claims", "check"}

RanLaterStage(p) == \E i \in 1..Len(trace[p]) : trace[p][i] \in LaterStages

\* the Fetch of a JWTRS256Assert call returns the error of this response: the
\* call returns Unautorized with the text of that error
FetchErrStep(p, resp) ==
  (Asserting(p) /\ FetchResponse(p, resp) /\ FetchBuild(resp).kind = "err") =>
    /\ pc'[p] = "done"
    /\ ret'[p] = Unautorized(FetchBuild(resp).err.msg)

\* the gateway failed: the call returns Unautorized with the transport's text
FetchFailStep(p) ==
  (Asserting(p) /\ FetchFail(p)) =>
    /\ pc'[p] = "done"
    /\ ret'[p] \in {Unautorized("context canceled"), Unautorized("connection refused")}

\* a call whose Fetch returned an error has ended with that error, without
\* a second lookup and without a signature or claims check
EndedOnFetchErr(p) ==
  Contains(trace[p], "fetch:err") =>
    /\ pc[p] = "done"
    /\ ret[p].class = "Unautorized" /\ ret[p].msg \in FetchErrorTexts
    /\ CacheCalls(trace[p]) = <<"key:miss", "fetch:call", "fetch:err">>
    /\ ~RanLaterStage(p)

\* a call whose Fetch returned nil and whose second lookup missed does
\* nothing more than return, and returns "JWKS kid is not found"
EndedOnSecondMiss(p) ==
  CacheCalls(trace[p]) = <<"key:miss", "fetch:call", "fetch:ok", "key:miss">> =>
    /\ pc[p] \in {"a_looked", "done"}
    /\ pc[p] = "done" => ret[p] = Unautorized("JWKS kid is not found")
    /\ ~RanLaterStage(p)

\* C16: after a cache miss in JWTRS256Assert, if the Fetch returns an error
\* the call returns Unautorized with that error's text and makes no second
\* lookup and no signature or claims check; if the Fetch returns nil and the
\* second lookup misses, the call returns Unautorized "JWKS kid is not found".
C16_MissHandling ==
  /\ [][\A p \in Procs : \A resp \in Responses : FetchErrStep(p, resp)]_vars
  /\ [][\A p \in Procs : FetchFailStep(p)]_vars
  /\ [](\A p \in Procs : Asserting(p) => EndedOnFetchErr(p) /\ EndedOnSecondMiss(p))

\* a call that missed ended on the error of its Fetch, which a 500 response
\* caused, right after the Fetch
C16_Witness ==
  \E p \in Procs :
    /\ Asserting(p) /\ pc[p] = "done"
    /\ trace[p] = <<"split", "header", "alg", "key:miss", "fetch:call", "fetch:err">>
    /\ ret[p] = Unautorized("JWKS fetch: expected 200, got 500")

(* ------------------------------------------------------------------ *)
(* C17                                                                 *)
(* ------------------------------------------------------------------ *)

Returned(fn) == cout # Pending /\ cin.fn = fn

\* the positions of the query whose element does not occur in the set
MissingAt == {i \in 1..Len(cin.query) : cin.query[i] \notin Elems(cin.set)}

\* the positions of the query whose element occurs in the set
FoundAt == {i \in 1..Len(cin.query) : cin.query[i] \in Elems(cin.set)}

Least(S) == CHOOSE i \in S : \A j \in S : i <= j

\* C17: ContainsAll(set, query) returns nil iff every element of the query
\* occurs in the set, so for every empty query; otherwise it returns a
\* pointer to the element of the query at the first position whose element
\* does not occur in the set.
C17_ContainsAll ==
  Returned("ContainsAll") =>
    /\ cout.nil <=> MissingAt = {}
    /\ cin.query = <<>> => cout.nil
    /\ MissingAt # {} => cout = Ptr(cin.query[Least(MissingAt)])

\* two elements of the query are missing from the set: the first is returned
C17_Witness ==
  /\ Returned("ContainsAll")
  /\ Cardinality({cin.query[i] : i \in MissingAt}) = 2
  /\ \E i \in FoundAt : i < Least(MissingAt)
  /\ cout = Ptr(cin.query[Least(MissingAt)])

(* ------------------------------------------------------------------ *)
(* C18                                                                 *)
(* ------------------------------------------------------------------ *)

\* C18: ContainsAny(set, query) returns nil iff no element of the query
\* occurs in the set, so whenever the set or the query is empty; otherwise it
\* returns a pointer to the element of the query at the first position whose
\* element occurs in the set.
C18_ContainsAny ==
  Returned("ContainsAny") =>
    /\ cout.nil <=> FoundAt = {}
    /\ (cin.set = <<>> \/ cin.query = <<>>) => cout.nil
    /\ FoundAt # {} => cout = Ptr(cin.query[Least(FoundAt)])

\* two elements of the query occur in the set, in the other order: the one
\* that comes first in the query is returned
C18_Witness ==
  /\ Returned("ContainsAny")
  /\ Len(cin.set) >= 2 /\ Len(cin.query) >= 2
  /\ \E i \in FoundAt, j \in FoundAt :
       /\ i < j
       /\ \E m \in 1..Len(cin.set), n \in 1..Len(cin.set) :
            m < n /\ cin.set[m] = cin.query[j] /\ cin.set[n] = cin.query[i]
  /\ cout = Ptr(cin.query[Least(FoundAt)])
  /\ cout # Ptr(cin.set[1])

(* ------------------------------------------------------------------ *)
(* C19                                                                 *)
(* ------------------------------------------------------------------ *)

\* the call of p missed, and the Fetch it made itself built a key set that
\* holds its kid and installed it
OwnFetchHasKid(p) ==
  /\ Asserting(p)
  /\ Contains(trace[p], "fetch:ok")
  /\ kid[p] \in DOMAIN built[p]

\* C19: a JWTRS256Assert call that missed the cache and whose own Fetch
\* returned a key set with its kid gets past the key resolution: it never
\* returns Unautorized "JWKS kid is not found", whatever other callers' Fetch
\* calls install in between.
C19_OwnFetchResolves ==
  \A p \in Procs :
    OwnFetchHasKid(p) =>
      /\ ret[p] # Unautorized("JWKS kid is not found")
      /\ pc[p] = "done" =>
           CacheCalls(trace[p]) = <<"key:miss", "fetch:call", "fetch:ok", "key:hit">>

(* ------------------------------------------------------------------ *)
(* C20                                                                 *)
(* ------------------------------------------------------------------ *)

\* some Fetch on the instance has returned nil
SomeFetchSucceeded == \E p \in Procs : Contains(trace[p], "fetch:ok")

\* a step of Key leaves the map alone and issues no GET
KeyStepReadsOnly(p) ==
  (KeyRLock(p) \/ KeyRead(p)) =>
    /\ keys' = keys
    /\ gets' = gets
    /\ hist' = hist
    /\ wrote' = wrote

\* C20: the map of a JWKS instance is empty exactly as long as no Fetch on it
\* has succeeded, and from the first successful Fetch on it holds at least one
\* key in every state, whatever Fetch calls succeed or fail and whatever
\* lookups run afterwards; Key never changes the map and never makes a Fetch.
C20_Lifecycle ==
  /\ [](DOMAIN keys = {} <=> ~SomeFetchSucceeded)
  /\ [][SomeFetchSucceeded => (SomeFetchSucceeded' /\ DOMAIN keys' # {})]_vars
  /\ [][\A p \in Procs : KeyStepReadsOnly(p)]_vars
  /\ [](\A p \in Procs :
          op[p] = "key" => (wrote[p] = 0 /\ ~Contains(trace[p], "fetch:call")))

\* after a Fetch that succeeded, another Fetch has failed and a lookup has
\* missed in the map that is installed, which still holds a key
C20_Witness ==
  \E p \in Procs, q \in Procs, r \in Procs :
    /\ op[p] = "fetch" /\ pc[p] = "done" /\ Contains(trace[p], "fetch:ok")
    /\ op[q] = "fetch" /\ pc[q] = "done" /\ Contains(trace[q], "fetch:err")
    /\ op[r] = "key" /\ pc[r] = "done" /\ ~look[r].exist /\ snap[r] = keys
    /\ DOMAIN keys # {}

(* ------------------------------------------------------------------ *)
(* C21                                                                 *)
(* ------------------------------------------------------------------ *)

Retrying(p) == op[p] = "retry"

\* a result of query that is an error whose text contains failure
Matching(e) ==
  /\ e.class = "error"
  /\ \E i \in 0..(Len(e.text) - Len(cin.failure)) :
       \A j \in 1..Len(cin.failure) : e.text[i + j] = cin.failure[j]

\* the attempts made so far: the results query returned, in order
Attempts(p) == trace[p]

\* query was called again only after an attempt that returned a matching
\* error, and never more than times times
AttemptsInOrder(p) ==
  /\ Len(Attempts(p)) <= IF cin.times > 0 THEN cin.times ELSE 0
  /\ \A i \in 1..(Len(Attempts(p)) - 1) : Matching(Attempts(p)[i])

\* Retry has returned: after no attempt at all only if times <= 0, and then
\* nil; else the result of the last attempt, which either does not match or
\* is the last of times attempts
ReturnedLast(p) ==
  pc[p] = "done" =>
    IF cin.times <= 0
    THEN Attempts(p) = <<>> /\ ret[p] = NoErr
    ELSE /\ Attempts(p) # <<>>
         /\ ret[p] = Attempts(p)[Len(Attempts(p))]
         /\ Matching(ret[p]) => Len(Attempts(p)) = cin.times

\* C21: Retry calls query at most times times, again only after an attempt
\* that returned an error whose text contains failure; it stops at the first
\* attempt that returns nil or another error and returns the result of the
\* last attempt made, nil without any attempt when times <= 0; and, every
\* call of query returning, it always returns.
C21_RetryTerminates ==
  /\ [](\A p \in Procs : Retrying(p) => (AttemptsInOrder(p) /\ ReturnedLast(p)))
  /\ \A p \in Procs : Retrying(p) ~> (pc[p] = "done")

\* every one of the times attempts failed with a matching error, and Retry
\* returned the last of them
C21_Witness ==
  \E p \in Procs :
    /\ Retrying(p) /\ pc[p] = "done"
    /\ cin.times = MaxTimes /\ cin.failure = <<"a">>
    /\ Len(Attempts(p)) = cin.times
    /\ \A i \in 1..cin.times : Matching(Attempts(p)[i])
    /\ Attempts(p)[1] # Attempts(p)[cin.times]
    /\ ret[p] = Attempts(p)[cin.times]

====
